---- MODULE Spec2Model ----
(***************************************************************************)
(* Battery-cell monitoring dashboards: the simulation cores of             *)
(*   variant 1  src/Battery_Management_ui.py  (free-running random walk),  *)
(*   variant 2  src/Enhanced_bms.py           (task-driven sequencer).     *)
(*                                                                         *)
(* Both programs are scripts that the UI framework runs from top to bottom *)
(* on every interaction (one widget changes per run) and on every          *)
(* auto-refresh.  One action of this model is one complete script run:     *)
(* the button pressed (if any), the configuration step, the sequencer     *)
(* transition and the cell update, in the order of the source.             *)
(*                                                                         *)
(* Quantities are fixed-point integers:                                    *)
(*   voltage      1 unit = 0.0001 V     (3.2 V   = 32000)                  *)
(*   current      1 unit = 0.1 A        (1.0 A   = 10)                     *)
(*   temperature  1 unit = 0.01 C       (25.0 C  = 2500)                   *)
(*   soc          1 unit = 0.01 %       (100 %   = 10000)                  *)
(*   health       1 unit = 0.0001 %     (100 %   = 1000000)                *)
(*   capacity     1 unit = 0.01 Wh                                         *)
(*   time         1 unit = 1 s                                             *)
(* A random draw is a nondeterministic choice from a finite subset of the  *)
(* interval the source draws from, always including both end points.       *)
(***************************************************************************)
EXTENDS Integers, Sequences, FiniteSets, TLC

VARIABLES
    variant,             \* which script this session runs: 1 or 2
    now,                 \* datetime.now() at the last script run, in seconds
    button,              \* the button pressed in the last script run
    num_cells,           \* "Number of Cells" widget value
    noise_level,         \* variant 1 "Parameter Variation" widget value, in 0.1
    cells_data,          \* st.session_state.cells_data: cell index -> record
    simulation_running,  \* st.session_state.simulation_running
    task_sequence,       \* variant 2 st.session_state.task_sequence
    current_task_step,   \* variant 2 st.session_state.current_task_step
    task_start_time,     \* variant 2 st.session_state.task_start_time
    task_type,           \* variant 2 script global task_type of the last run
    task_params,         \* variant 2 script global task_params of the last run
    historical_data,     \* st.session_state.historical_data
    data_points,         \* variant 1 st.session_state.data_points
    removed_ids,         \* the cell indices deleted from the store so far
    call,                \* a call of one of the pure functions: its arguments
    result               \* what that call returned

vars == <<variant, now, button, num_cells, noise_level, cells_data,
          simulation_running, task_sequence, current_task_step,
          task_start_time, task_type, task_params, historical_data,
          data_points, removed_ids, call, result>>

(***************************************************************************)
(* Bounds of the model.                                                    *)
(***************************************************************************)
MaxTime == 25        \* the clock stops the exploration of a session here
MaxTasks == 2        \* longest task queue explored
MaxOver == 50        \* ticks explored beyond the first HistoryLimit ticks
LongRunTicks == 498  \* ticks of a long variant 2 run before it is explored
MaxGap == 2          \* longest spacing between two ticks of SpecSeq, seconds

(***************************************************************************)
(* Arithmetic helpers.                                                     *)
(***************************************************************************)
Min(a, b) == IF a <= b THEN a ELSE b
Max(a, b) == IF a >= b THEN a ELSE b
Abs(a) == IF a < 0 THEN -a ELSE a

\* round(x, 2) of the non-negative quantity n/d (Python rounds half to even)
RoundHalfEven(n, d) ==
    LET q == n \div d
        r == n % d
    IN  IF 2 * r < d THEN q
        ELSE IF 2 * r > d THEN q + 1
        ELSE IF q % 2 = 0 THEN q ELSE q + 1

\* dict.get(key, default)
Get(params, key, default) ==
    IF key \in DOMAIN params THEN params[key] ELSE default

\* task_start_time = None
NoTime == -1

\* the lengths the history buffers of variant 1 are cut back to
HistoryLimit == 100
DataPointsLimit == 500

(***************************************************************************)
(* Variant 2: cell creation and the per-tick cell update.                  *)
(***************************************************************************)
create_cell_data(cell_type, temp, soc, health) ==
    LET voltage == IF cell_type = "lfp" THEN 32000 ELSE 36000
        min_voltage == IF cell_type = "lfp" THEN 28000 ELSE 32000
        max_voltage == IF cell_type = "lfp" THEN 36000 ELSE 40000
        current == 0
    IN  [ voltage     |-> voltage,
          current     |-> current,
          temp        |-> temp,
          capacity    |-> RoundHalfEven(voltage * current, 1000),
          min_voltage |-> min_voltage,
          max_voltage |-> max_voltage,
          soc         |-> soc,
          health      |-> health,
          status      |-> "IDLE",
          type        |-> cell_type ]

(***************************************************************************)
(* Defective variants of simulate_battery_operation, used to show that the *)
(* properties below depend on the code.                                    *)
(***************************************************************************)
\* the charge branch forgets min(..., 100) on soc
simulate_soc_unclamped(cell_data, ttype, tparams, u) ==
    LET c1 == IF ttype = "CC_CV"
              THEN [cell_data EXCEPT
                      !.current = Get(tparams, "current", 10),
                      !.voltage = Min(cell_data.voltage + 100, cell_data.max_voltage),
                      !.soc     = cell_data.soc + 50,
                      !.status  = "CHARGING"]
              ELSE IF ttype = "CC_CD"
              THEN [cell_data EXCEPT
                      !.current = -Abs(Get(tparams, "current", 10)),
                      !.voltage = Max(cell_data.voltage - 100, cell_data.min_voltage),
                      !.soc     = Max(cell_data.soc - 30, 0),
                      !.status  = "DISCHARGING"]
              ELSE [cell_data EXCEPT !.current = 0, !.status = "IDLE"]
        c2 == IF Abs(c1.current) > 0
              THEN [c1 EXCEPT !.temp = Max(2000, Min(5000, c1.temp + u))]
              ELSE c1
    IN  [c2 EXCEPT !.capacity = RoundHalfEven(c2.voltage * Abs(c2.current), 1000)]

\* the discharge branch forgets the minus sign of the current
simulate_discharge_unsigned(cell_data, ttype, tparams, u) ==
    LET c1 == IF ttype = "CC_CV"
              THEN [cell_data EXCEPT
                      !.current = Get(tparams, "current", 10),
                      !.voltage = Min(cell_data.voltage + 100, cell_data.max_voltage),
                      !.soc     = Min(cell_data.soc + 50, 10000),
                      !.status  = "CHARGING"]
              ELSE IF ttype = "CC_CD"
              THEN [cell_data EXCEPT
                      !.current = Abs(Get(tparams, "current", 10)),
                      !.voltage = Max(cell_data.voltage - 100, cell_data.min_voltage),
                      !.soc     = Max(cell_data.soc - 30, 0),
                      !.status  = "DISCHARGING"]
              ELSE [cell_data EXCEPT !.current = 0, !.status = "IDLE"]
        c2 == IF Abs(c1.current) > 0
              THEN [c1 EXCEPT !.temp = Max(2000, Min(5000, c1.temp + u))]
              ELSE c1
    IN  [c2 EXCEPT !.capacity = RoundHalfEven(c2.voltage * Abs(c2.current), 1000)]

\* the charge branch forgets min(..., max_voltage) on voltage
simulate_voltage_unclamped(cell_data, ttype, tparams, u) ==
    LET c1 == IF ttype = "CC_CV"
              THEN [cell_data EXCEPT
                      !.current = Get(tparams, "current", 10),
                      !.voltage = cell_data.voltage + 100,
                      !.soc     = Min(cell_data.soc + 50, 10000),
                      !.status  = "CHARGING"]
              ELSE IF ttype = "CC_CD"
              THEN [cell_data EXCEPT
                      !.current = -Abs(Get(tparams, "current", 10)),
                      !.voltage = Max(cell_data.voltage - 100, cell_data.min_voltage),
                      !.soc     = Max(cell_data.soc - 30, 0),
                      !.status  = "DISCHARGING"]
              ELSE [cell_data EXCEPT !.current = 0, !.status = "IDLE"]
        c2 == IF Abs(c1.current) > 0
              THEN [c1 EXCEPT !.temp = Max(2000, Min(5000, c1.temp + u))]
              ELSE c1
    IN  [c2 EXCEPT !.capacity = RoundHalfEven(c2.voltage * Abs(c2.current), 1000)]

\* u is the draw of random.uniform(-0.5, 0.5)
\* defective variant: the temperature is perturbed but not clamped
simulate_temp_unclamped(cell_data, ttype, tparams, u) ==
    LET c1 == IF ttype = "CC_CV"
              THEN [cell_data EXCEPT
                       !.current = Get(tparams, "current", 10),
                       !.voltage = Min(cell_data.voltage + 100, cell_data.max_voltage),
                       !.soc     = Min(cell_data.soc + 50, 10000),
                       !.status  = "CHARGING"]
              ELSE IF ttype = "CC_CD"
              THEN [cell_data EXCEPT
                       !.current = -Abs(Get(tparams, "current", 10)),
                       !.voltage = Max(cell_data.voltage - 100, cell_data.min_voltage),
                       !.soc     = Max(cell_data.soc - 30, 0),
                       !.status  = "DISCHARGING"]
              ELSE [cell_data EXCEPT !.current = 0, !.status = "IDLE"]
        c2 == IF Abs(c1.current) > 0
              THEN [c1 EXCEPT !.temp = c1.temp + u]
              ELSE c1
    IN  [c2 EXCEPT !.capacity = RoundHalfEven(c2.voltage * Abs(c2.current), 1000)]

\* defective variant: the temperature is updated whatever the current is
simulate_temp_unconditional(cell_data, ttype, tparams, u) ==
    LET c1 == IF ttype = "CC_CV"
              THEN [cell_data EXCEPT
                      !.current = Get(tparams, "current", 10),
                      !.voltage = Min(cell_data.voltage + 100, cell_data.max_voltage),
                      !.soc     = Min(cell_data.soc + 50, 10000),
                      !.status  = "CHARGING"]
              ELSE IF ttype = "CC_CD"
              THEN [cell_data EXCEPT
                      !.current = -Abs(Get(tparams, "current", 10)),
                      !.voltage = Max(cell_data.voltage - 100, cell_data.min_voltage),
                      !.soc     = Max(cell_data.soc - 30, 0),
                      !.status  = "DISCHARGING"]
              ELSE [cell_data EXCEPT !.current = 0, !.status = "IDLE"]
        c2 == [c1 EXCEPT !.temp = Max(2000, Min(5000, c1.temp + u))]
    IN  [c2 EXCEPT !.capacity = RoundHalfEven(c2.voltage * Abs(c2.current), 1000)]

\* defective variant: the CV voltage and the cut-off voltage of the task
\* limit the voltage of the cell
simulate_voltage_task_limited(cell_data, ttype, tparams, u) ==
    LET c1 == IF ttype = "CC_CV"
              THEN [cell_data EXCEPT
                      !.current = Get(tparams, "current", 10),
                      !.voltage = Min(Min(cell_data.voltage + 100,
                                          cell_data.max_voltage),
                                      Get(tparams, "cv_voltage", 40000)),
                      !.soc     = Min(cell_data.soc + 50, 10000),
                      !.status  = "CHARGING"]
              ELSE IF ttype = "CC_CD"
              THEN [cell_data EXCEPT
                      !.current = -Abs(Get(tparams, "current", 10)),
                      !.voltage = Max(Max(cell_data.voltage - 100,
                                          cell_data.min_voltage),
                                      Get(tparams, "voltage", 30000)),
                      !.soc     = Max(cell_data.soc - 30, 0),
                      !.status  = "DISCHARGING"]
              ELSE [cell_data EXCEPT !.current = 0, !.status = "IDLE"]
        c2 == IF Abs(c1.current) > 0
              THEN [c1 EXCEPT !.temp = Max(2000, Min(5000, c1.temp + u))]
              ELSE c1
    IN  [c2 EXCEPT !.capacity = RoundHalfEven(c2.voltage * Abs(c2.current), 1000)]

simulate_battery_operation(cell_data, ttype, tparams, u) ==
    LET c1 == IF ttype = "CC_CV"
              THEN [cell_data EXCEPT
                      !.current = Get(tparams, "current", 10),
                      !.voltage = Min(cell_data.voltage + 100, cell_data.max_voltage),
                      !.soc     = Min(cell_data.soc + 50, 10000),
                      !.status  = "CHARGING"]
              ELSE IF ttype = "CC_CD"
              THEN [cell_data EXCEPT
                      !.current = -Abs(Get(tparams, "current", 10)),
                      !.voltage = Max(cell_data.voltage - 100, cell_data.min_voltage),
                      !.soc     = Max(cell_data.soc - 30, 0),
                      !.status  = "DISCHARGING"]
              ELSE [cell_data EXCEPT !.current = 0, !.status = "IDLE"]
        c2 == IF Abs(c1.current) > 0
              THEN [c1 EXCEPT !.temp = Max(2000, Min(5000, c1.temp + u))]
              ELSE c1
    IN  [c2 EXCEPT !.capacity = RoundHalfEven(c2.voltage * Abs(c2.current), 1000)]

(***************************************************************************)
(* Variant 2: the task queue.                                              *)
(***************************************************************************)
\* new_task_params as the sidebar builds it for each task type
NewTaskParams(ttype, current, voltage, seconds) ==
    IF ttype = "CC_CV"
    THEN [current |-> current, cv_voltage |-> voltage, time_seconds |-> seconds]
    ELSE IF ttype = "CC_CD"
    THEN [current |-> current, voltage |-> voltage, time_seconds |-> seconds]
    ELSE [time_seconds |-> seconds]

\* "Add Task to Sequence"
AddTaskToSequence(seq, ttype, tparams) ==
    Append(seq, [type |-> ttype, params |-> tparams, completed |-> FALSE])

\* defective variant: "Clear Sequence" forgets current_task_step = 0
ClearSequenceKeepStep(seq, step, start) ==
    [seq |-> <<>>, step |-> step, start |-> NoTime]

\* "Clear Sequence"
ClearSequence(seq, step, start) ==
    [seq |-> <<>>, step |-> 0, start |-> NoTime]

\* "Get current task parameters"
GetCurrentTask(seq, step) ==
    IF seq # <<>> /\ step < Len(seq)
    THEN [type |-> seq[step + 1].type, params |-> seq[step + 1].params]
    ELSE [type |-> "IDLE", params |-> [time_seconds |-> 30]]

\* Start / Stop / Reset
ControlButtons(btn, running) ==
    IF btn = "start" THEN TRUE
    ELSE IF btn \in {"stop", "reset"} THEN FALSE
    ELSE running

(***************************************************************************)
(* Defective variants of the task sequence management.                     *)
(***************************************************************************)
\* elapsed_time > time_seconds instead of >=
TaskSequenceManagementStrict(seq, step, start, running, t) ==
    IF running /\ seq # <<>>
    THEN LET st == IF start = NoTime THEN t ELSE start
             current_task == seq[step + 1]
             elapsed_time == t - st
         IN  IF elapsed_time > current_task.params.time_seconds
             THEN LET seq2 == [seq EXCEPT ![step + 1].completed = TRUE]
                  IN  IF step + 1 >= Len(seq2)
                      THEN [seq |-> seq2, step |-> 0, start |-> NoTime,
                            running |-> FALSE]
                      ELSE [seq |-> seq2, step |-> step + 1, start |-> t,
                            running |-> TRUE]
             ELSE [seq |-> seq, step |-> step, start |-> st, running |-> running]
    ELSE [seq |-> seq, step |-> step, start |-> start, running |-> running]

\* the step index is advanced before the task is marked: the next task is
\* marked completed instead of the current one
TaskSequenceManagementMarkNext(seq, step, start, running, t) ==
    IF running /\ seq # <<>>
    THEN LET st == IF start = NoTime THEN t ELSE start
             current_task == seq[step + 1]
             elapsed_time == t - st
         IN  IF elapsed_time >= current_task.params.time_seconds
             THEN LET seq2 == [seq EXCEPT
                                 ![Min(step + 2, Len(seq))].completed = TRUE]
                  IN  IF step + 1 >= Len(seq2)
                      THEN [seq |-> seq2, step |-> 0, start |-> NoTime,
                            running |-> FALSE]
                      ELSE [seq |-> seq2, step |-> step + 1, start |-> t,
                            running |-> TRUE]
             ELSE [seq |-> seq, step |-> step, start |-> st, running |-> running]
    ELSE [seq |-> seq, step |-> step, start |-> start, running |-> running]

\* the completed flags are reset when the sequence wraps around
TaskSequenceManagementResetFlags(seq, step, start, running, t) ==
    IF running /\ seq # <<>>
    THEN LET st == IF start = NoTime THEN t ELSE start
             current_task == seq[step + 1]
             elapsed_time == t - st
         IN  IF elapsed_time >= current_task.params.time_seconds
             THEN LET seq2 == [seq EXCEPT ![step + 1].completed = TRUE]
                  IN  IF step + 1 >= Len(seq2)
                      THEN [seq |-> [i \in 1..Len(seq2) |->
                                       [seq2[i] EXCEPT !.completed = FALSE]],
                            step |-> 0, start |-> NoTime, running |-> FALSE]
                      ELSE [seq |-> seq2, step |-> step + 1, start |-> t,
                            running |-> TRUE]
             ELSE [seq |-> seq, step |-> step, start |-> st, running |-> running]
    ELSE [seq |-> seq, step |-> step, start |-> start, running |-> running]

\* task_start_time is not set again when a task completes
TaskSequenceManagementNoRestart(seq, step, start, running, t) ==
    IF running /\ seq # <<>>
    THEN LET st == IF start = NoTime THEN t ELSE start
             current_task == seq[step + 1]
             elapsed_time == t - st
         IN  IF elapsed_time >= current_task.params.time_seconds
             THEN LET seq2 == [seq EXCEPT ![step + 1].completed = TRUE]
                  IN  IF step + 1 >= Len(seq2)
                      THEN [seq |-> seq2, step |-> 0, start |-> NoTime,
                            running |-> FALSE]
                      ELSE [seq |-> seq2, step |-> step + 1, start |-> st,
                            running |-> TRUE]
             ELSE [seq |-> seq, step |-> step, start |-> st, running |-> running]
    ELSE [seq |-> seq, step |-> step, start |-> start, running |-> running]

\* current_task_step is not set back to 0 when the last task completes
TaskSequenceManagementNoWrap(seq, step, start, running, t) ==
    IF running /\ seq # <<>>
    THEN LET st == IF start = NoTime THEN t ELSE start
             current_task == seq[step + 1]
             elapsed_time == t - st
         IN  IF elapsed_time >= current_task.params.time_seconds
             THEN LET seq2 == [seq EXCEPT ![step + 1].completed = TRUE]
                  IN  IF step + 1 >= Len(seq2)
                      THEN [seq |-> seq2, step |-> step + 1, start |-> NoTime,
                            running |-> FALSE]
                      ELSE [seq |-> seq2, step |-> step + 1, start |-> t,
                            running |-> TRUE]
             ELSE [seq |-> seq, step |-> step, start |-> st, running |-> running]
    ELSE [seq |-> seq, step |-> step, start |-> start, running |-> running]

\* "Task sequence management" at time t
TaskSequenceManagement(seq, step, start, running, t) ==
    IF running /\ seq # <<>>
    THEN LET st == IF start = NoTime THEN t ELSE start
             current_task == seq[step + 1]
             elapsed_time == t - st
         IN  IF elapsed_time >= current_task.params.time_seconds
             THEN LET seq2 == [seq EXCEPT ![step + 1].completed = TRUE]
                  IN  IF step + 1 >= Len(seq2)
                      THEN [seq |-> seq2, step |-> 0, start |-> NoTime,
                            running |-> FALSE]
                      ELSE [seq |-> seq2, step |-> step + 1, start |-> t,
                            running |-> TRUE]
             ELSE [seq |-> seq, step |-> step, start |-> st, running |-> running]
    ELSE [seq |-> seq, step |-> step, start |-> start, running |-> running]

(***************************************************************************)
(* Inputs of variant 2.  An environment env gives the finite sets a        *)
(* specification draws the inputs of a script run from:                    *)
(*   env.gaps       seconds between two script runs                        *)
(*   env.horizon    the clock value at which the exploration stops         *)
(*   env.counts     values of the "Number of Cells" widget                 *)
(*   env.cellDraws  the draws of create_cell_data and the type selection:  *)
(*                  temp = round(uniform(25, 40), 1), soc = randint(20,90),*)
(*                  health = randint(85, 100)                              *)
(*   env.tempDraws  draws of random.uniform(-0.5, 0.5)                     *)
(*   env.tasks      values of the "Add Task" widgets                       *)
(***************************************************************************)
\* tasks the sidebar sliders can produce: current in [0.1, 5.0] A,
\* CV voltage in [3.0, 4.2] V, cut-off voltage in [2.5, 3.5] V,
\* time in [10, 300] s (CC_CV, CC_CD) or [5, 120] s (IDLE)
Task(ttype, current, voltage, seconds) ==
    [type |-> ttype, params |-> NewTaskParams(ttype, current, voltage, seconds)]

SliderTasks ==
    { Task("CC_CV", 10, 40000, 10),
      Task("CC_CD", 50, 30000, 10),
      Task("IDLE", 0, 0, 5) }

FreshCellDraws ==
    { [type |-> "lfp", temp |-> 2500, soc |-> 2000, health |-> 850000],
      [type |-> "nmc", temp |-> 4000, soc |-> 9000, health |-> 1000000] }

SessionEnv ==
    [ gaps      |-> {5},
      horizon   |-> MaxTime,
      counts    |-> {1, 2},
      cellDraws |-> FreshCellDraws,
      tempDraws |-> {-50, 50},
      tasks     |-> SliderTasks ]

(***************************************************************************)
(* Variant 2: one script run.  btn is the button pressed in this run,      *)
(* new_task the value of the "Add Task" widgets, dt the time since the     *)
(* previous run, draws[k] the creation draws of cell k and us[k] its       *)
(* temperature draw.                                                       *)
(***************************************************************************)
\* "Initialize or update cells"
InitializeCells(cells, n, draws) ==
    [k \in (DOMAIN cells) \cup (1..n) |->
        IF k \in DOMAIN cells THEN cells[k]
        ELSE create_cell_data(draws[k].type, draws[k].temp, draws[k].soc,
                              draws[k].health)]

\* "Update simulation": every cell gets the task of this run
UpdateSimulation(cells, ttype, tparams, us) ==
    [k \in DOMAIN cells |->
        simulate_battery_operation(cells[k], ttype, tparams, us[k])]

\* "Store historical data": one record per cell, in the order of the store;
\* a record is kept by its cell key (its other fields are copies of the
\* cell's fields that nothing in the script reads back)
StoreHistoricalData(history, cells) ==
    history \o [k \in 1..Cardinality(DOMAIN cells) |-> [cell |-> k]]

Run2(btn, n, new_task, t, draws, us) ==
    LET cells1 == InitializeCells(cells_data, n, draws)
        seq1   == IF btn = "add"
                  THEN AddTaskToSequence(task_sequence, new_task.type,
                                         new_task.params)
                  ELSE task_sequence
        q      == IF btn = "clear"
                  THEN ClearSequence(seq1, current_task_step, task_start_time)
                  ELSE [seq |-> seq1, step |-> current_task_step,
                        start |-> task_start_time]
        cur    == GetCurrentTask(q.seq, q.step)
        run1   == ControlButtons(btn, simulation_running)
        m      == TaskSequenceManagement(q.seq, q.step, q.start, run1, t)
        cells2 == IF m.running
                  THEN UpdateSimulation(cells1, cur.type, cur.params, us)
                  ELSE cells1
        hist1  == IF btn = "reset" THEN <<>> ELSE historical_data
        hist2  == IF m.running THEN StoreHistoricalData(hist1, cells2)
                  ELSE hist1
    IN  /\ now' = t
        /\ button' = btn
        /\ num_cells' = n
        /\ cells_data' = cells2
        /\ task_sequence' = m.seq
        /\ current_task_step' = m.step
        /\ task_start_time' = m.start
        /\ simulation_running' = m.running
        /\ task_type' = cur.type
        /\ task_params' = cur.params
        /\ historical_data' = hist2
        /\ UNCHANGED <<variant, noise_level, data_points, removed_ids, call,
                       result>>

\* the draws of a run: every cell of the run gets the same draw (nothing in
\* the source couples the cells, so this loses no behaviour of a single cell)
Script2(env, btn, n, new_task) ==
    \E dt \in env.gaps :
        /\ now + dt <= env.horizon
        /\ LET created == (1..n) \ DOMAIN cells_data
           IN  \E draw \in env.cellDraws :
               \E u \in env.tempDraws :
                  Run2(btn, n, new_task, now + dt, [k \in created |-> draw],
                       [k \in (DOMAIN cells_data) \cup (1..n) |-> u])

NoTask == Task("IDLE", 0, 0, 30)

\* auto-refresh, or a widget other than a button was touched
V2Rerun(env) == variant = 2 /\ Script2(env, "none", num_cells, NoTask)
V2SetNumCells(env) ==
    /\ variant = 2
    /\ \E n \in env.counts : n # num_cells /\ Script2(env, "none", n, NoTask)
V2AddTask(env) ==
    /\ variant = 2
    /\ Len(task_sequence) < MaxTasks
    /\ \E new_task \in env.tasks : Script2(env, "add", num_cells, new_task)
V2ClearSequence(env) == variant = 2 /\ Script2(env, "clear", num_cells, NoTask)
V2Start(env) == variant = 2 /\ Script2(env, "start", num_cells, NoTask)
V2Stop(env) == variant = 2 /\ Script2(env, "stop", num_cells, NoTask)
V2Reset(env) == variant = 2 /\ Script2(env, "reset", num_cells, NoTask)

(***************************************************************************)
(* Variant 1: state of charge and health score.                            *)
(***************************************************************************)
\* cell_type.lower()
Lower(cell_type) ==
    IF cell_type = "NMC" THEN "nmc"
    ELSE IF cell_type = "LFP" THEN "lfp"
    ELSE IF cell_type = "NiMH" THEN "nimh"
    ELSE IF cell_type = "Lead-Acid" THEN "lead-acid"
    ELSE cell_type

\* voltage_ranges.get(cell_type.lower(), (3.0, 4.2))
voltage_ranges(cell_type) ==
    LET key == Lower(cell_type)
    IN  IF key = "lfp" THEN <<25000, 36500>>
        ELSE IF key = "nmc" THEN <<30000, 42000>>
        ELSE IF key = "nimh" THEN <<10000, 14000>>
        ELSE IF key = "lead-acid" THEN <<18000, 21000>>
        ELSE <<30000, 42000>>

\* optimal_voltages.get(cell_type.lower(), 3.7)
optimal_voltages(cell_type) ==
    LET key == Lower(cell_type)
    IN  IF key = "lfp" THEN 33000
        ELSE IF key = "nmc" THEN 37000
        ELSE IF key = "nimh" THEN 12500
        ELSE IF key = "lead-acid" THEN 20000
        ELSE 37000

\* defective variant: the result is not clamped to [0, 100]
calculate_soc_unclamped(voltage, cell_type) ==
    LET min_v == voltage_ranges(cell_type)[1]
        max_v == voltage_ranges(cell_type)[2]
    IN  ((voltage - min_v) * 10000) \div (max_v - min_v)

\* the quotient is kept to 0.01 %, rounded down
calculate_soc(voltage, cell_type) ==
    LET min_v == voltage_ranges(cell_type)[1]
        max_v == voltage_ranges(cell_type)[2]
        soc   == ((voltage - min_v) * 10000) \div (max_v - min_v)
    IN  Max(0, Min(10000, soc))

\* defective variant: the score is not clamped to [0, 100]
calculate_battery_health_unclamped(voltage, current, temp, soc, cell_type, z) ==
    LET temp_penalty ==
            IF temp > 5000 THEN Min(300000, (temp - 5000) * 300)
            ELSE IF temp > 4000 THEN (temp - 4000) * 150
            ELSE IF temp < 0 THEN Min(250000, Abs(temp) * 200)
            ELSE IF temp < 1000 THEN (1000 - temp) * 80
            ELSE 0
        voltage_deviation == Abs(voltage - optimal_voltages(cell_type))
        voltage_penalty == Min(200000, voltage_deviation * 15)
        abs_current == Abs(current)
        current_penalty ==
            IF abs_current > 80 THEN Min(250000, (abs_current - 80) * 3000)
            ELSE IF abs_current > 50 THEN (abs_current - 50) * 1500
            ELSE 0
        soc_penalty ==
            IF soc < 1000 THEN (1000 - soc) * 200
            ELSE IF soc > 9500 THEN (soc - 9500) * 150
            ELSE IF soc < 2000 THEN (2000 - soc) * 50
            ELSE IF soc > 9000 THEN (soc - 9000) * 80
            ELSE 0
        health_score == 1000000 - temp_penalty - voltage_penalty
                          - current_penalty - soc_penalty + z
    IN  health_score

\* defective variant: the temperature penalty is not subtracted
calculate_battery_health_no_temp_penalty(voltage, current, temp, soc, cell_type, z) ==
    LET temp_penalty ==
            IF temp > 5000 THEN Min(300000, (temp - 5000) * 300)
            ELSE IF temp > 4000 THEN (temp - 4000) * 150
            ELSE IF temp < 0 THEN Min(250000, Abs(temp) * 200)
            ELSE IF temp < 1000 THEN (1000 - temp) * 80
            ELSE 0
        voltage_deviation == Abs(voltage - optimal_voltages(cell_type))
        voltage_penalty == Min(200000, voltage_deviation * 15)
        abs_current == Abs(current)
        current_penalty ==
            IF abs_current > 80 THEN Min(250000, (abs_current - 80) * 3000)
            ELSE IF abs_current > 50 THEN (abs_current - 50) * 1500
            ELSE 0
        soc_penalty ==
            IF soc < 1000 THEN (1000 - soc) * 200
            ELSE IF soc > 9500 THEN (soc - 9500) * 150
            ELSE IF soc < 2000 THEN (2000 - soc) * 50
            ELSE IF soc > 9000 THEN (soc - 9000) * 80
            ELSE 0
        health_score == 1000000 - voltage_penalty
                          - current_penalty - soc_penalty + z
    IN  Max(0, Min(1000000, health_score))

\* z is the draw of random.uniform(-2, 2)
calculate_battery_health(voltage, current, temp, soc, cell_type, z) ==
    LET temp_penalty ==
            IF temp > 5000 THEN Min(300000, (temp - 5000) * 300)
            ELSE IF temp > 4000 THEN (temp - 4000) * 150
            ELSE IF temp < 0 THEN Min(250000, Abs(temp) * 200)
            ELSE IF temp < 1000 THEN (1000 - temp) * 80
            ELSE 0
        voltage_deviation == Abs(voltage - optimal_voltages(cell_type))
        voltage_penalty == Min(200000, voltage_deviation * 15)
        abs_current == Abs(current)
        current_penalty ==
            IF abs_current > 80 THEN Min(250000, (abs_current - 80) * 3000)
            ELSE IF abs_current > 50 THEN (abs_current - 50) * 1500
            ELSE 0
        soc_penalty ==
            IF soc < 1000 THEN (1000 - soc) * 200
            ELSE IF soc > 9500 THEN (soc - 9500) * 150
            ELSE IF soc < 2000 THEN (2000 - soc) * 50
            ELSE IF soc > 9000 THEN (soc - 9000) * 80
            ELSE 0
        health_score == 1000000 - temp_penalty - voltage_penalty
                          - current_penalty - soc_penalty + z
    IN  Max(0, Min(1000000, health_score))

(***************************************************************************)
(* Variant 1: the status label and the suggestions of a cell.              *)
(***************************************************************************)
\* the four parts of the suggestion list, each empty or one suggestion
HealthStatus(health) ==
    IF health >= 950000
    THEN [status |-> "Excellent", class |-> "status-excellent", say |-> <<>>]
    ELSE IF health >= 850000
    THEN [status |-> "Good", class |-> "status-good", say |-> <<>>]
    ELSE IF health >= 700000
    THEN [status |-> "Normal", class |-> "status-normal",
          say |-> <<"Monitor regularly">>]
    ELSE IF health >= 500000
    THEN [status |-> "Warning", class |-> "status-warning",
          say |-> <<"Check cell parameters">>]
    ELSE IF health >= 300000
    THEN [status |-> "Critical", class |-> "status-critical",
          say |-> <<"Immediate attention required">>]
    ELSE [status |-> "Danger", class |-> "status-danger",
          say |-> <<"Replace cell immediately">>]

TemperatureSuggestion(temp) ==
    IF temp > 4500 THEN <<"Cool down the battery">>
    ELSE IF temp < 500 THEN <<"Warm up the battery">>
    ELSE <<>>

SocSuggestion(soc) ==
    IF soc < 1500 THEN <<"Charge battery soon">>
    ELSE IF soc > 9500 THEN <<"Avoid overcharging">>
    ELSE <<>>

VoltageSuggestion(voltage, cell_type) ==
    IF Abs(voltage - optimal_voltages(cell_type)) > 3000
    THEN <<"Check voltage regulation">>
    ELSE <<>>

\* defective variant: the voltage suggestion is appended first
get_detailed_cell_status_voltage_first(health, temp, voltage, soc, cell_type) ==
    LET h == HealthStatus(health)
    IN  [ status       |-> h.status,
          status_class |-> h.class,
          suggestions  |-> VoltageSuggestion(voltage, cell_type) \o h.say
                             \o TemperatureSuggestion(temp) \o SocSuggestion(soc) ]

get_detailed_cell_status(health, temp, voltage, soc, cell_type) ==
    LET h == HealthStatus(health)
    IN  [ status       |-> h.status,
          status_class |-> h.class,
          suggestions  |-> h.say \o TemperatureSuggestion(temp)
                             \o SocSuggestion(soc)
                             \o VoltageSuggestion(voltage, cell_type) ]

(***************************************************************************)
(* Variant 1: the configuration step and the simulation tick.              *)
(***************************************************************************)
\* "Initialize with more varied parameters": d holds the draws
NewCell(d) ==
    [ type     |-> d.type,
      voltage  |-> d.voltage,
      current  |-> d.current,
      temp     |-> d.temp,
      capacity |-> 0,
      soc      |-> 5000,
      health   |-> d.health ]

\* defective variant: the capacity is not recomputed from the widget values
UpdateCellDataStaleCapacity(cell, w, z) ==
    [cell EXCEPT
        !.type     = w.type,
        !.voltage  = w.voltage,
        !.current  = w.current,
        !.temp     = w.temp,
        !.soc      = calculate_soc(w.voltage, w.type),
        !.health   = calculate_battery_health(w.voltage, w.current, w.temp,
                        calculate_soc(w.voltage, w.type), w.type, z)]

\* "Update cell data" from the widget values w, z the health draw
UpdateCellData(cell, w, z) ==
    [cell EXCEPT
        !.type     = w.type,
        !.voltage  = w.voltage,
        !.current  = w.current,
        !.temp     = w.temp,
        !.capacity = RoundHalfEven(w.voltage * Abs(w.current), 1000),
        !.soc      = calculate_soc(w.voltage, w.type),
        !.health   = calculate_battery_health(w.voltage, w.current, w.temp,
                        calculate_soc(w.voltage, w.type), w.type, z)]

\* the widgets of cell k show the stored values unless the user moved one
WidgetValues(cell, k, edit) ==
    [ type    |-> IF edit.cell = k /\ edit.field = "type"
                  THEN edit.value ELSE cell.type,
      voltage |-> IF edit.cell = k /\ edit.field = "voltage"
                  THEN edit.value ELSE cell.voltage,
      current |-> IF edit.cell = k /\ edit.field = "current"
                  THEN edit.value ELSE cell.current,
      temp    |-> IF edit.cell = k /\ edit.field = "temp"
                  THEN edit.value ELSE cell.temp ]

\* "Remove excess cells if number decreased"
cells_to_remove(cells, n) == {k \in DOMAIN cells : k > n}

\* "Initialize or update cells data" followed by "Remove excess cells"
ConfigureCells(cells, n, edit, draws, zs) ==
    [k \in 1..n |->
        LET cell == IF k \in DOMAIN cells THEN cells[k] ELSE NewCell(draws[k])
        IN  UpdateCellData(cell, WidgetValues(cell, k, edit), zs[k])]

\* defective variant: the voltage clamp forgets its upper limit
ClampVoltageNoUpper(x) == Max(1000, x)

\* defective variant: the current clamp forgets its lower limit
ClampCurrentNoLower(x) == Min(150, x)

\* the three clamps of the tick
ClampTemp(x) == Max(-1000, Min(7000, x))
ClampVoltage(x) == Max(1000, Min(50000, x))
ClampCurrent(x) == Max(-150, Min(150, x))

\* "Enhanced simulation" of one cell: d.t, d.v, d.c in {-1, 0, 1} place the
\* three uniform draws in their intervals, d.z is the health draw
SimulateCell(cell, noise, d) ==
    LET temp_variation == d.t * noise * 10
                          + (IF Abs(cell.current) > 30 THEN Abs(cell.current) ELSE 0)
        temp == ClampTemp(cell.temp + temp_variation)
        voltage_variation == d.v * noise * 20
                             - (IF cell.current < 0 THEN Abs(cell.current) * 2 ELSE 0)
        voltage == ClampVoltage(cell.voltage + voltage_variation)
        current_variation == d.c * ((noise * 5) \div 10)
        current == ClampCurrent(cell.current + current_variation)
        soc == calculate_soc(voltage, cell.type)
    IN  [cell EXCEPT
            !.temp     = temp,
            !.voltage  = voltage,
            !.current  = current,
            !.soc      = soc,
            !.capacity = RoundHalfEven(voltage * Abs(current), 1000),
            !.health   = calculate_battery_health(voltage, current, temp, soc,
                                                  cell.type, d.z)]

\* sum of one field over the cells 1 .. n of the store
RECURSIVE SumOf(_, _, _)
SumOf(cells, field, n) ==
    IF n = 0 THEN 0 ELSE cells[n][field] + SumOf(cells, field, n - 1)

\* "Add system averages to historical data": the means are kept to one unit
\* of the field, rounded down
SystemAverages(cells, t) ==
    LET n == Cardinality(DOMAIN cells)
    IN  [ timestamp      |-> t,
          avg_voltage    |-> SumOf(cells, "voltage", n) \div n,
          avg_temp       |-> SumOf(cells, "temp", n) \div n,
          avg_soc        |-> SumOf(cells, "soc", n) \div n,
          avg_health     |-> SumOf(cells, "health", n) \div n,
          total_capacity |-> SumOf(cells, "capacity", n) ]

\* "Store individual cell data points", in the order of the store
CellDataPoints(cells, t) ==
    [k \in 1..Cardinality(DOMAIN cells) |->
        [ timestamp   |-> t,
          cell_id     |-> k,
          voltage     |-> cells[k].voltage,
          current     |-> cells[k].current,
          temperature |-> cells[k].temp,
          soc         |-> cells[k].soc,
          health      |-> cells[k].health ]]

\* defective variant: the oldest entries are kept, the new ones dropped
KeepFirst(buffer, limit) ==
    IF Len(buffer) > limit THEN SubSeq(buffer, 1, limit) ELSE buffer

\* buffer[-limit:] when the buffer is longer than limit
KeepLast(buffer, limit) ==
    IF Len(buffer) > limit
    THEN SubSeq(buffer, Len(buffer) - limit + 1, Len(buffer))
    ELSE buffer

\* "Add current data to historical tracking" and "Keep only last 100 data
\* points for performance"
TrackHistory(history, points, cells, t) ==
    [ historical_data |->
          KeepLast(Append(history, SystemAverages(cells, t)), HistoryLimit),
      data_points |->
          KeepLast(points \o CellDataPoints(cells, t), DataPointsLimit) ]

\* Reset Data
ResetData(btn, history, points) ==
    IF btn = "reset" THEN [historical_data |-> <<>>, data_points |-> <<>>]
    ELSE [historical_data |-> history, data_points |-> points]

\* Start Simulation / Stop Simulation
ActionBar(btn, running) ==
    IF btn = "start" THEN TRUE
    ELSE IF btn = "stop" THEN FALSE
    ELSE running

Run1(btn, n, noise, edit, t, draws, zs, ds) ==
    LET run1   == ActionBar(btn, simulation_running)
        cells1 == ConfigureCells(cells_data, n, edit, draws, zs)
        cells2 == IF run1
                  THEN [k \in DOMAIN cells1 |-> SimulateCell(cells1[k], noise, ds[k])]
                  ELSE cells1
        kept   == ResetData(btn, historical_data, data_points)
        logged == IF run1
                  THEN TrackHistory(kept.historical_data, kept.data_points,
                                    cells1, t)
                  ELSE kept
    IN  /\ now' = t
        /\ button' = btn
        /\ num_cells' = n
        /\ noise_level' = noise
        /\ cells_data' = cells2
        /\ simulation_running' = run1
        /\ historical_data' = logged.historical_data
        /\ data_points' = logged.data_points
        /\ removed_ids' = removed_ids \cup cells_to_remove(cells_data, n)
        /\ UNCHANGED <<variant, task_sequence, current_task_step,
                       task_start_time, task_type, task_params, call, result>>

(***************************************************************************)
(* Inputs of variant 1.                                                    *)
(*   env.gaps, env.horizon, env.counts   as for variant 2                  *)
(*   env.newCells     draws of the cell initialisation: type in {NMC, LFP},*)
(*                    voltage in [3.0, 4.0], current in [-2, 2],           *)
(*                    temp in [20, 35], health in [60, 100]                *)
(*   env.noises       values of the "Parameter Variation" slider [0, 2]    *)
(*   env.types, env.voltages, env.currents, env.temps                      *)
(*                    values the user gives the widgets of a cell          *)
(*   env.edited       the cells whose widgets the user touches             *)
(*   env.healthDraws  draws of random.uniform(-2, 2)                       *)
(*   env.tickDraws    positions of the three draws of a tick               *)
(***************************************************************************)
NoEdit == [cell |-> 0, field |-> "none", value |-> 0]

\* the draws of a run: every cell of the run gets the same draw (nothing in
\* the source couples the cells, so this loses no behaviour of a single
\* cell); the health draw of the configuration step decides the stored
\* health only when no tick follows it in the same run
OneOf(S) == {CHOOSE x \in S : TRUE}

Script1(env, btn, n, noise, edit) ==
    \E dt \in env.gaps :
        /\ now + dt <= env.horizon
        /\ LET ticking == ActionBar(btn, simulation_running)
               created == (1..n) \ DOMAIN cells_data
           IN  \E draw \in (IF created = {} THEN OneOf(env.newCells)
                            ELSE env.newCells) :
               \E z \in (IF ticking THEN OneOf(env.healthDraws)
                         ELSE env.healthDraws) :
               \E d \in (IF ticking THEN env.tickDraws
                         ELSE OneOf(env.tickDraws)) :
                  Run1(btn, n, noise, edit, now + dt,
                       [k \in created |-> draw], [k \in 1..n |-> z],
                       [k \in 1..n |-> d])

V1Rerun(env) == variant = 1 /\ Script1(env, "none", num_cells, noise_level, NoEdit)
V1Start(env) == variant = 1 /\ Script1(env, "start", num_cells, noise_level, NoEdit)
V1Stop(env) == variant = 1 /\ Script1(env, "stop", num_cells, noise_level, NoEdit)
V1ResetData(env) == variant = 1 /\ Script1(env, "reset", num_cells, noise_level, NoEdit)
V1SetNumCells(env) ==
    /\ variant = 1
    /\ \E n \in env.counts :
          n # num_cells /\ Script1(env, "none", n, noise_level, NoEdit)
V1SetNoise(env) ==
    /\ variant = 1
    /\ \E noise \in env.noises :
          noise # noise_level /\ Script1(env, "none", num_cells, noise, NoEdit)
V1Edit(env, field, values) ==
    /\ variant = 1
    /\ \E k \in env.edited \cap DOMAIN cells_data : \E v \in values :
          /\ k <= num_cells
          /\ v # cells_data[k][field]
          /\ Script1(env, "none", num_cells, noise_level,
                     [cell |-> k, field |-> field, value |-> v])
V1EditType(env) == V1Edit(env, "type", env.types)
V1EditVoltage(env) == V1Edit(env, "voltage", env.voltages)
V1EditCurrent(env) == V1Edit(env, "current", env.currents)
V1EditTemp(env) == V1Edit(env, "temp", env.temps)

SessionEnv1 ==
    [ gaps        |-> {6},
      horizon     |-> MaxTime,
      counts      |-> {1, 2},
      edited      |-> {1},
      newCells    |-> { [type |-> "LFP", voltage |-> 40000, current |-> -20,
                         temp |-> 2000, health |-> 600000],
                        [type |-> "NMC", voltage |-> 30000, current |-> 20,
                         temp |-> 3500, health |-> 1000000] },
      noises      |-> {5, 20},
      types       |-> {"NiMH", "Lead-Acid"},
      voltages    |-> {50000},
      currents    |-> {-150},
      temps       |-> {7000},
      healthDraws |-> {20000},
      tickDraws   |-> { [t |-> -1, v |-> -1, c |-> -1, z |-> -20000],
                        [t |-> 1, v |-> 1, c |-> 1, z |-> 20000] } ]

(***************************************************************************)
(* A fresh session: nothing in the store, no task, not running.            *)
(***************************************************************************)
\* no pure function is under examination
NoCall ==
    [ fn |-> "none", voltage |-> 0, current |-> 0, temp |-> 0, soc |-> 0,
      health |-> 0, cell_type |-> "", z |-> 0 ]

NoResult ==
    [ done |-> FALSE, soc |-> 0, health |-> 0, status |-> "",
      suggestions |-> <<>> ]

Init ==
    /\ variant \in {1, 2}
    /\ now = 0
    /\ button = "none"
    /\ num_cells \in SessionEnv.counts
    /\ noise_level = 5
    /\ cells_data = <<>>
    /\ simulation_running = FALSE
    /\ task_sequence = <<>>
    /\ current_task_step = 0
    /\ task_start_time = NoTime
    /\ task_type = "IDLE"
    /\ task_params = [time_seconds |-> 30]
    /\ historical_data = <<>>
    /\ data_points = <<>>
    /\ removed_ids = {}
    /\ call = NoCall
    /\ result = NoResult

Next ==
    \/ V2Rerun(SessionEnv)
    \/ V2SetNumCells(SessionEnv)
    \/ V2AddTask(SessionEnv)
    \/ V2ClearSequence(SessionEnv)
    \/ V2Start(SessionEnv)
    \/ V2Stop(SessionEnv)
    \/ V2Reset(SessionEnv)
    \/ V1Rerun(SessionEnv1)
    \/ V1Start(SessionEnv1)
    \/ V1Stop(SessionEnv1)
    \/ V1ResetData(SessionEnv1)
    \/ V1SetNumCells(SessionEnv1)
    \/ V1SetNoise(SessionEnv1)
    \/ V1EditType(SessionEnv1)
    \/ V1EditVoltage(SessionEnv1)
    \/ V1EditCurrent(SessionEnv1)
    \/ V1EditTemp(SessionEnv1)

Spec == Init /\ [][Next]_vars

(***************************************************************************)
(* SpecCycled: the sessions of Spec, and variant 2 sessions whose cell has *)
(* been cycled to a limit before the exploration starts: a cell is created,*)
(* one long task is added and started, the cell is ticked c.ticks times,   *)
(* then Reset is pressed (it stops the simulation and empties the         *)
(* history) and the queue is cleared.  The clock is                        *)
(* counted from that moment.                                               *)
(***************************************************************************)
\* n ticks of one task (an IDLE tick repeated changes nothing more)
RECURSIVE Cycle(_, _, _, _)
Cycle(cell, task, u, n) ==
    IF n = 0 THEN cell
    ELSE LET ticked == simulate_battery_operation(cell, task.type, task.params, u)
         IN  IF ticked.status # "IDLE" THEN Cycle(ticked, task, u, n - 1)
             ELSE ticked

\* 40 charge ticks bring a fresh cell to its maximum voltage (3.2 + 40 x 0.01)
\* and a 90 % cell to 100 %; 66 discharge ticks bring a fresh cell to its
\* minimum voltage and a 20 % cell to 0.2 %
Cycles ==
    { [type |-> "lfp", temp |-> 2500, soc |-> 2000, health |-> 850000,
       task |-> Task("CC_CV", 10, 40000, 300), u |-> 50, ticks |-> 40],
      [type |-> "nmc", temp |-> 4000, soc |-> 9000, health |-> 1000000,
       task |-> Task("CC_CV", 10, 40000, 300), u |-> 50, ticks |-> 40],
      [type |-> "lfp", temp |-> 2500, soc |-> 2000, health |-> 850000,
       task |-> Task("CC_CD", 50, 30000, 300), u |-> -50, ticks |-> 66] }

CycledCells ==
    { Cycle(create_cell_data(c.type, c.temp, c.soc, c.health), c.task, c.u, c.ticks) :
        c \in Cycles }

InitCycled ==
    \/ Init
    \/ /\ variant = 2
       /\ now = 0
       /\ button = "clear"
       /\ num_cells = 1
       /\ noise_level = 5
       /\ \E cell \in CycledCells : cells_data = (1 :> cell)
       /\ simulation_running = FALSE
       /\ task_sequence = <<>>
       /\ current_task_step = 0
       /\ task_start_time = NoTime
       /\ task_type = "IDLE"
       /\ task_params = [time_seconds |-> 30]
       /\ historical_data = <<>>
       /\ data_points = <<>>
       /\ removed_ids = {}
       /\ call = NoCall
       /\ result = NoResult

SpecCycled == InitCycled /\ [][Next]_vars

(***************************************************************************)
(* SpecSeq: a variant 2 session with one cell and the queue                *)
(* [CC_CV 10 s, CC_CD 20 s, IDLE 5 s], just after the run in which Start   *)
(* was pressed (the clock is counted from that run, which set              *)
(* task_start_time and applied the first tick).  From then on the script   *)
(* only auto-refreshes, every 1..MaxGap seconds.                           *)
(***************************************************************************)
SeqTasks ==
    << Task("CC_CV", 10, 40000, 10), Task("CC_CD", 50, 30000, 20),
       Task("IDLE", 0, 0, 5) >>

\* the time the three tasks take together
SeqTotal == SeqTasks[1].params.time_seconds + SeqTasks[2].params.time_seconds
              + SeqTasks[3].params.time_seconds

SeqEnv ==
    [ gaps      |-> 1..MaxGap,
      horizon   |-> SeqTotal + 3 * MaxGap + 2,
      counts    |-> {1},
      cellDraws |-> FreshCellDraws,
      tempDraws |-> {50},
      tasks     |-> {} ]

InitSeq ==
    /\ variant = 2
    /\ now = 0
    /\ button = "start"
    /\ num_cells = 1
    /\ noise_level = 5
    /\ \E d \in FreshCellDraws : \E u \in SeqEnv.tempDraws :
          cells_data =
             UpdateSimulation(
                (1 :> create_cell_data(d.type, d.temp, d.soc, d.health)),
                SeqTasks[1].type, SeqTasks[1].params, (1 :> u))
    /\ simulation_running = TRUE
    /\ task_sequence =
          [i \in 1..3 |-> [type |-> SeqTasks[i].type,
                           params |-> SeqTasks[i].params,
                           completed |-> FALSE]]
    /\ current_task_step = 0
    /\ task_start_time = 0
    /\ task_type = SeqTasks[1].type
    /\ task_params = SeqTasks[1].params
    /\ historical_data = StoreHistoricalData(<<>>, cells_data)
    /\ data_points = <<>>
    /\ removed_ids = {}
    /\ call = NoCall
    /\ result = NoResult

NextSeq == V2Rerun(SeqEnv)

SpecSeq == InitSeq /\ [][NextSeq]_vars

(***************************************************************************)
(* SpecEnqueue: the sessions of Spec, with the "Add Task" handler also     *)
(* given durations that the sliders do not produce (zero and negative).    *)
(***************************************************************************)
EnqueueEnv ==
    [ SessionEnv EXCEPT
        !.counts = {1},
        !.tempDraws = {50},
        !.tasks = SliderTasks \cup { Task("IDLE", 0, 0, 0),
                                     Task("CC_CV", 10, 40000, -5) } ]

InitEnqueue == Init /\ variant = 2 /\ num_cells = 1

NextEnqueue ==
    \/ V2Rerun(EnqueueEnv)
    \/ V2AddTask(EnqueueEnv)
    \/ V2ClearSequence(EnqueueEnv)
    \/ V2Start(EnqueueEnv)
    \/ V2Stop(EnqueueEnv)
    \/ V2Reset(EnqueueEnv)

SpecEnqueue == InitEnqueue /\ [][NextEnqueue]_vars

(***************************************************************************)
(* SpecCalls: the three pure functions of variant 1, each called once on   *)
(* arguments drawn from grids that hold the thresholds of the source, the  *)
(* values next to them, and values outside the ranges the widgets allow.   *)
(***************************************************************************)
session == <<variant, now, button, num_cells, noise_level, cells_data,
             simulation_running, task_sequence, current_task_step,
             task_start_time, task_type, task_params, historical_data,
             data_points, removed_ids>>

CallTypes == {"NMC", "LFP", "NiMH", "Lead-Acid", "lfp", "Li-ion"}

SocVoltages ==
    { -10000, 0, 9999, 10000, 12000, 14000, 17999, 18000, 19500, 21000,
      24999, 25000, 30000, 30750, 36500, 36501, 41999, 42000, 42001, 50000,
      100000 }

SocCalls ==
    { [NoCall EXCEPT !.fn = "calculate_soc", !.voltage = v, !.cell_type = c] :
        v \in SocVoltages, c \in CallTypes }

HealthCalls ==
    { [NoCall EXCEPT !.fn = "calculate_battery_health", !.voltage = v,
                     !.current = i, !.temp = t, !.soc = q, !.cell_type = c,
                     !.z = z] :
        v \in {0, 33000, 37000, 100000},
        i \in {-300, -150, -81, -51, 0, 50, 80},
        t \in {-5000, -1000, -1, 0, 999, 1000, 4000, 4001, 5000, 5001, 20000},
        q \in {-10000, 0, 999, 1000, 1999, 2000, 9000, 9001, 9501, 10000, 30000},
        c \in {"NMC", "LFP", "Li-ion"},
        z \in {-20000, 0, 20000} }

StatusCalls ==
    { [NoCall EXCEPT !.fn = "get_detailed_cell_status", !.health = h,
                     !.temp = t, !.voltage = v, !.soc = q, !.cell_type = c] :
        h \in {0, 299999, 300000, 499999, 500000, 699999, 700000, 849999,
               850000, 949999, 950000, 1000000},
        t \in {499, 500, 2500, 4500, 4501},
        v \in {33000, 36000, 36001, 37000, 40000, 40001},
        q \in {1499, 1500, 5000, 9500, 9501},
        c \in {"NMC", "LFP", "Li-ion"} }

\* a cell is scored and then classified with the score it got
AssessCalls ==
    { [NoCall EXCEPT !.fn = "assess", !.voltage = 42000, !.current = 100,
                     !.temp = 5500, !.soc = 9800, !.cell_type = c, !.z = z] :
        c \in {"NMC", "LFP"}, z \in {-20000, -10000, 0, 10000, 20000} }

InitCalls ==
    /\ variant = 1
    /\ now = 0
    /\ button = "none"
    /\ num_cells = 1
    /\ noise_level = 5
    /\ cells_data = <<>>
    /\ simulation_running = FALSE
    /\ task_sequence = <<>>
    /\ current_task_step = 0
    /\ task_start_time = NoTime
    /\ task_type = "IDLE"
    /\ task_params = [time_seconds |-> 30]
    /\ historical_data = <<>>
    /\ data_points = <<>>
    /\ removed_ids = {}
    /\ call \in SocCalls \cup HealthCalls \cup StatusCalls \cup AssessCalls
    /\ result = NoResult

CallCalculateSoc ==
    /\ call.fn = "calculate_soc"
    /\ result' = [NoResult EXCEPT
                     !.done = TRUE,
                     !.soc = calculate_soc(call.voltage, call.cell_type)]
    /\ UNCHANGED <<session, call>>

CallCalculateBatteryHealth ==
    /\ call.fn = "calculate_battery_health"
    /\ result' = [NoResult EXCEPT
                     !.done = TRUE,
                     !.health = calculate_battery_health(call.voltage,
                                   call.current, call.temp, call.soc,
                                   call.cell_type, call.z)]
    /\ UNCHANGED <<session, call>>

CallGetDetailedCellStatus ==
    /\ call.fn = "get_detailed_cell_status"
    /\ LET r == get_detailed_cell_status(call.health, call.temp, call.voltage,
                                         call.soc, call.cell_type)
       IN  result' = [NoResult EXCEPT
                         !.done = TRUE,
                         !.status = r.status,
                         !.suggestions = r.suggestions]
    /\ UNCHANGED <<session, call>>

CallAssess ==
    /\ call.fn = "assess"
    /\ LET health == calculate_battery_health(call.voltage, call.current,
                        call.temp, call.soc, call.cell_type, call.z)
           r == get_detailed_cell_status(health, call.temp, call.voltage,
                                         call.soc, call.cell_type)
       IN  result' = [NoResult EXCEPT
                         !.done = TRUE,
                         !.health = health,
                         !.status = r.status,
                         !.suggestions = r.suggestions]
    /\ UNCHANGED <<session, call>>

NextCalls ==
    \/ CallCalculateSoc
    \/ CallCalculateBatteryHealth
    \/ CallGetDetailedCellStatus
    \/ CallAssess

SpecCalls == InitCalls /\ [][NextCalls]_vars

(***************************************************************************)
(* SpecHistory: a variant 1 session with one cell, just after the run in   *)
(* which Start Simulation was pressed (the clock is counted from that run, *)
(* which created the cell, logged it and ticked it).  From then on the     *)
(* script refreshes every second, long enough for the aggregate history to *)
(* reach its limit and be cut back MaxOver times; Reset Data may be        *)
(* pressed at any refresh.                                                 *)
(***************************************************************************)
HistoryEnv ==
    [ SessionEnv1 EXCEPT
        !.gaps = {1},
        !.horizon = HistoryLimit + MaxOver,
        !.counts = {1},
        !.newCells = { [type |-> "NMC", voltage |-> 30000, current |-> 20,
                        temp |-> 3500, health |-> 1000000] },
        !.tickDraws = { [t |-> 1, v |-> 1, c |-> 1, z |-> 20000] } ]

InitHistory ==
    /\ variant = 1
    /\ now = 0
    /\ button = "start"
    /\ num_cells = 1
    /\ noise_level = 5
    /\ simulation_running = TRUE
    /\ \E draw \in HistoryEnv.newCells : \E z \in HistoryEnv.healthDraws :
       \E d \in HistoryEnv.tickDraws :
          LET cells1 == ConfigureCells(<<>>, 1, NoEdit, (1 :> draw), (1 :> z))
              logged == TrackHistory(<<>>, <<>>, cells1, 0)
          IN  /\ cells_data = (1 :> SimulateCell(cells1[1], 5, d))
              /\ historical_data = logged.historical_data
              /\ data_points = logged.data_points
    /\ task_sequence = <<>>
    /\ current_task_step = 0
    /\ task_start_time = NoTime
    /\ task_type = "IDLE"
    /\ task_params = [time_seconds |-> 30]
    /\ removed_ids = {}
    /\ call = NoCall
    /\ result = NoResult

NextHistory ==
    \/ V1Rerun(HistoryEnv)
    \/ V1ResetData(HistoryEnv)

SpecHistory == InitHistory /\ [][NextHistory]_vars

(***************************************************************************)
(* SpecLongRun: a variant 2 session with one cell and an empty queue that  *)
(* was started and has refreshed LongRunTicks times (with an empty queue   *)
(* every tick is an IDLE tick: the cell stays as it was created, and each  *)
(* tick logs one record).  The clock is counted from the last of these     *)
(* runs.                                                                   *)
(***************************************************************************)
\* the history n ticking runs leave behind: every tick appends the same
\* records, so 2m ticks leave what m ticks leave, twice
RECURSIVE LoggedTicks(_, _)
LoggedTicks(cells, n) ==
    IF n = 0 THEN <<>>
    ELSE IF n % 2 = 0
    THEN LET half == LoggedTicks(cells, n \div 2) IN half \o half
    ELSE StoreHistoricalData(LoggedTicks(cells, n - 1), cells)

LongRunEnv == [ SessionEnv EXCEPT !.counts = {1}, !.tempDraws = {50} ]

InitLongRun ==
    /\ variant = 2
    /\ now = 0
    /\ button = "none"
    /\ num_cells = 1
    /\ noise_level = 5
    /\ \E d \in FreshCellDraws :
          cells_data =
             UpdateSimulation(
                (1 :> create_cell_data(d.type, d.temp, d.soc, d.health)),
                "IDLE", [time_seconds |-> 30], (1 :> 0))
    /\ simulation_running = TRUE
    /\ task_sequence = <<>>
    /\ current_task_step = 0
    /\ task_start_time = NoTime
    /\ task_type = "IDLE"
    /\ task_params = [time_seconds |-> 30]
    /\ historical_data = LoggedTicks(cells_data, LongRunTicks)
    /\ data_points = <<>>
    /\ removed_ids = {}
    /\ call = NoCall
    /\ result = NoResult

NextLongRun ==
    \/ V2Rerun(LongRunEnv)
    \/ V2AddTask(LongRunEnv)
    \/ V2ClearSequence(LongRunEnv)
    \/ V2Start(LongRunEnv)
    \/ V2Stop(LongRunEnv)
    \/ V2Reset(LongRunEnv)

SpecLongRun == InitLongRun /\ [][NextLongRun]_vars

(***************************************************************************)
(*                              PROPERTIES                                 *)
(***************************************************************************)

\* C1 (SpecCycled): in every reachable state of either variant every cell of
\* the store has 0 <= soc <= 100 and 0 <= health <= 100.
SocAndHealthInRange ==
    \A k \in DOMAIN cells_data :
        /\ 0 <= cells_data[k].soc /\ cells_data[k].soc <= 10000
        /\ 0 <= cells_data[k].health /\ cells_data[k].health <= 1000000

\* a charge tick has been applied to a variant 2 cell that was full already
SocClampedAtFull ==
    /\ variant = 2 /\ now > 0 /\ simulation_running /\ task_type = "CC_CV"
    /\ \E k \in DOMAIN cells_data :
          cells_data[k].soc = 10000 /\ cells_data[k].status = "CHARGING"

\* C2 (Spec): on a tick (a run without a button) of a running variant 2
\* session with a non-empty queue: if the time since task_start_time is at
\* least the active task's duration, that task is marked completed and the
\* step index advances by one, wrapping to 0 with the simulation stopped and
\* task_start_time cleared when it reaches the queue length, else
\* task_start_time is the time of the tick and the simulation keeps running;
\* if the time is less than the duration, the step index, the completed
\* flags and the run state are unchanged.
SequencerTickAsSpecified ==
    LET n        == Len(task_sequence)
        i        == current_task_step + 1
        elapsed  == IF task_start_time = NoTime THEN 0 ELSE now' - task_start_time
        duration == task_sequence[i].params.time_seconds
        flags(q) == [j \in 1..Len(q) |-> q[j].completed]
    IN  (variant = 2 /\ button' = "none" /\ simulation_running /\ n > 0)
        => IF elapsed >= duration
           THEN /\ Len(task_sequence') = n
                /\ task_sequence'[i].completed
                /\ \A j \in (1..n) \ {i} : task_sequence'[j] = task_sequence[j]
                /\ IF current_task_step + 1 = n
                   THEN /\ ~simulation_running'
                        /\ current_task_step' = 0
                        /\ task_start_time' = NoTime
                   ELSE /\ simulation_running'
                        /\ current_task_step' = current_task_step + 1
                        /\ task_start_time' = now'
           ELSE /\ current_task_step' = current_task_step
                /\ flags(task_sequence') = flags(task_sequence)
                /\ simulation_running' = simulation_running

SequencerTick == [][SequencerTickAsSpecified]_vars

\* a tick has completed the first task of a longer queue and moved on
AdvancedToSecondTask ==
    /\ variant = 2 /\ button = "none" /\ simulation_running
    /\ Len(task_sequence) = 2 /\ current_task_step = 1
    /\ task_sequence[1].completed /\ ~task_sequence[2].completed
    /\ task_start_time = now

\* C3 (Spec): the tasks of variant 2 run in queue order: whenever the task at
\* index i is completed so is every task before it, every task before the
\* step index is completed, and at most one task, the one at the step index,
\* is active.
ActiveTasks ==
    {i \in 1..Len(task_sequence) : simulation_running /\ i = current_task_step + 1}

QueueOrder ==
    /\ \A i \in 1..Len(task_sequence) :
          task_sequence[i].completed
             => \A j \in 1..(i - 1) : task_sequence[j].completed
    /\ \A j \in 1..Len(task_sequence) :
          j <= current_task_step => task_sequence[j].completed
    /\ Cardinality(ActiveTasks) <= 1

\* the second task is running, the first is completed, the second is not
SecondTaskActive ==
    /\ variant = 2 /\ Len(task_sequence) = 2
    /\ ActiveTasks = {2}
    /\ task_sequence[1].completed /\ ~task_sequence[2].completed

\* C4 (Spec): a completed task stays completed (and stays the same task at
\* the same place of the queue) in every later state, whatever is pressed,
\* until Clear Sequence removes it.
CompletedStays ==
    \A i \in 1..Len(task_sequence) :
        task_sequence[i].completed
           => \/ button' = "clear"
              \/ /\ i <= Len(task_sequence')
                 /\ task_sequence'[i].completed
                 /\ task_sequence'[i].type = task_sequence[i].type
                 /\ task_sequence'[i].params = task_sequence[i].params

CompletedMonotonic == [][CompletedStays]_vars

\* a sequence that has run to its end is started again: its task is still
\* marked completed while it runs for the second time
RestartedWithCompletedTask ==
    /\ variant = 2 /\ button = "start" /\ simulation_running
    /\ task_sequence # <<>> /\ current_task_step = 0
    /\ task_sequence[1].completed

\* C5 (SpecSeq), as stated: with the queue [10, 20, 5] and a started
\* simulation, once 35 s have elapsed the sequencer has reached completion:
\* the three tasks are completed, the simulation is stopped, the step is 0.
SeqCompleted ==
    /\ \A i \in 1..Len(task_sequence) : task_sequence[i].completed
    /\ ~simulation_running
    /\ current_task_step = 0

ClearLeavesSequencerEmpty ==
    (variant = 2 /\ button = "clear")
       => /\ task_sequence = <<>>
          /\ current_task_step = 0
          /\ task_start_time = NoTime

\* Clear Sequence was pressed while the simulation was running
ClearedWhileRunning ==
    /\ variant = 2 /\ button = "clear" /\ simulation_running /\ now > 0
    /\ task_sequence = <<>>

\* C8 (SpecCycled): the variant 2 tick equals the specified update, for
\* every cell and task: CC_CV sets current to the task's current, voltage to
\* min(voltage + 0.01, max_voltage), soc to min(soc + 0.5, 100), status to
\* CHARGING; CC_CD sets current to -|task current|, voltage to
\* max(voltage - 0.01, min_voltage), soc to max(soc - 0.3, 0), status to
\* DISCHARGING; any other task sets current to 0 and status to IDLE.
SpecifiedUpdate(before, after, ttype, tparams) ==
    IF ttype = "CC_CV"
    THEN /\ after.current = tparams.current
         /\ after.voltage = Min(before.voltage + 100, before.max_voltage)
         /\ after.soc = Min(before.soc + 50, 10000)
         /\ after.status = "CHARGING"
    ELSE IF ttype = "CC_CD"
    THEN /\ after.current = -Abs(tparams.current)
         /\ after.voltage = Max(before.voltage - 100, before.min_voltage)
         /\ after.soc = Max(before.soc - 30, 0)
         /\ after.status = "DISCHARGING"
    ELSE /\ after.current = 0
         /\ after.status = "IDLE"

TickIsSpecifiedUpdate ==
    (variant = 2 /\ simulation_running')
       => \A k \in DOMAIN cells_data :
             SpecifiedUpdate(cells_data[k], cells_data'[k], task_type', task_params')

UpdatePerTask == [][TickIsSpecifiedUpdate]_vars

\* a discharge tick has been applied to a cell at its floor: minimum voltage,
\* 0 % soc, negative current
DischargedAtFloor ==
    /\ variant = 2 /\ now > 0 /\ simulation_running /\ task_type = "CC_CD"
    /\ \E k \in DOMAIN cells_data :
          /\ cells_data[k].voltage = cells_data[k].min_voltage
          /\ cells_data[k].soc = 0
          /\ cells_data[k].current < 0
          /\ cells_data[k].status = "DISCHARGING"

\* C9 (SpecCycled): after any sequence of CC_CV, CC_CD and IDLE ticks from a
\* freshly created cell, or from a cell at its maximum voltage, the voltage
\* of a variant 2 cell is never above max_voltage nor below min_voltage.
VoltageWithinCellLimits ==
    variant = 2
       => \A k \in DOMAIN cells_data :
             /\ cells_data[k].min_voltage <= cells_data[k].voltage
             /\ cells_data[k].voltage <= cells_data[k].max_voltage

\* a charge tick has been applied to an LFP cell that was at its maximum
ChargedAtMaxVoltage ==
    /\ variant = 2 /\ now > 0 /\ simulation_running /\ task_type = "CC_CV"
    /\ \E k \in DOMAIN cells_data :
          /\ cells_data[k].type = "lfp"
          /\ cells_data[k].voltage = cells_data[k].max_voltage
          /\ cells_data[k].status = "CHARGING"

\* C10 (Spec), as stated: in variant 1, after each tick the voltage of every
\* cell is within the range of its own chemistry.
VoltageWithinChemistryRange ==
    (variant = 1 /\ simulation_running)
       => \A k \in DOMAIN cells_data :
             /\ voltage_ranges(cells_data[k].type)[1] <= cells_data[k].voltage
             /\ cells_data[k].voltage <= voltage_ranges(cells_data[k].type)[2]

\* C10 (Spec), amended: in variant 1, after each tick the voltage of every
\* cell is within the generic range [0.1 V, 5.0 V], whatever its chemistry.
VoltageWithinGenericRange ==
    (variant = 1 /\ simulation_running)
       => \A k \in DOMAIN cells_data :
             1000 <= cells_data[k].voltage /\ cells_data[k].voltage <= 50000

\* a tick has left a cell at 5.0 V, above the range of its chemistry
TickedAtFiveVolts ==
    /\ variant = 1 /\ simulation_running
    /\ \E k \in DOMAIN cells_data :
          /\ cells_data[k].voltage = 50000
          /\ cells_data[k].voltage > voltage_ranges(cells_data[k].type)[2]

\* C11 (Spec): in both variants, at the end of every run (configuration step,
\* and tick when the simulation runs) the capacity of every cell equals
\* round(voltage * |current|, 2) of the voltage and current the cell has.
CapacityRecomputed ==
    \A k \in DOMAIN cells_data :
        cells_data[k].capacity =
            RoundHalfEven(cells_data[k].voltage * Abs(cells_data[k].current), 1000)

\* a variant 1 tick has left a cell with a current and so with a capacity
TickedWithCapacity ==
    /\ variant = 1 /\ simulation_running /\ now > 0
    /\ \E k \in DOMAIN cells_data :
          cells_data[k].current # 0 /\ cells_data[k].capacity > 0

\* C12 (Spec): in variant 1, after every tick each cell has its temperature
\* in [-10, 70], its current in [-15, 15] and its voltage in [0.1, 5.0].
TickWithinClamps ==
    (variant = 1 /\ simulation_running)
       => \A k \in DOMAIN cells_data :
             /\ -1000 <= cells_data[k].temp /\ cells_data[k].temp <= 7000
             /\ -150 <= cells_data[k].current /\ cells_data[k].current <= 150
             /\ 1000 <= cells_data[k].voltage /\ cells_data[k].voltage <= 50000

\* a tick has left a cell at the upper temperature limit and at the lower
\* current limit
TickedAtLimits ==
    /\ variant = 1 /\ simulation_running
    /\ \E k \in DOMAIN cells_data :
          cells_data[k].temp = 7000 /\ cells_data[k].current = -150

\* C13 (SpecCycled): in variant 2 the temperature of every cell is in
\* [20, 50] in every reachable state; a run changes it only when it ticks the
\* cell with a resulting current other than 0, by a perturbation in
\* [-0.5, 0.5] followed by the clamp to [20, 50], and leaves it unchanged
\* when the resulting current is 0 (or when the run does not tick).
V2TempInRange ==
    variant = 2
       => \A k \in DOMAIN cells_data :
             2000 <= cells_data[k].temp /\ cells_data[k].temp <= 5000

V2TempStep ==
    variant = 2
       => \A k \in DOMAIN cells_data :
             IF simulation_running' /\ cells_data'[k].current # 0
             THEN /\ Max(2000, Min(5000, cells_data[k].temp - 50))
                        <= cells_data'[k].temp
                  /\ cells_data'[k].temp
                        <= Max(2000, Min(5000, cells_data[k].temp + 50))
             ELSE cells_data'[k].temp = cells_data[k].temp

V2Temperature == [][V2TempInRange /\ V2TempStep /\ V2TempInRange']_vars

\* a charge tick has left a cell at the upper temperature limit
ChargedAtTempLimit ==
    /\ variant = 2 /\ now > 0 /\ simulation_running /\ task_type = "CC_CV"
    /\ \E k \in DOMAIN cells_data :
          cells_data[k].temp = 5000 /\ cells_data[k].current # 0

\* C14 (SpecCalls): calculate_soc is, for every chemistry (an unknown one
\* counts as NMC, 3.0 - 4.2 V), within [0, 100], 0 at the minimum voltage of
\* the chemistry, 100 at its maximum voltage, and non-decreasing in voltage.
ChemistryRange(cell_type) ==
    IF cell_type \in {"LFP", "lfp"} THEN <<25000, 36500>>
    ELSE IF cell_type = "NiMH" THEN <<10000, 14000>>
    ELSE IF cell_type = "Lead-Acid" THEN <<18000, 21000>>
    ELSE <<30000, 42000>>

SocAsSpecified ==
    (call.fn = "calculate_soc" /\ result.done)
       => /\ 0 <= result.soc /\ result.soc <= 10000
          /\ call.voltage = ChemistryRange(call.cell_type)[1] => result.soc = 0
          /\ call.voltage = ChemistryRange(call.cell_type)[2] => result.soc = 10000
          /\ \A v \in SocVoltages :
                /\ v >= call.voltage
                      => calculate_soc(v, call.cell_type) >= result.soc
                /\ v <= call.voltage
                      => calculate_soc(v, call.cell_type) <= result.soc

\* calculate_soc has returned 100 % for a voltage above the maximum of the
\* chemistry
SocClampedAboveRange ==
    /\ call.fn = "calculate_soc" /\ result.done
    /\ call.voltage > ChemistryRange(call.cell_type)[2]
    /\ result.soc = 10000

\* C15 (SpecCalls): calculate_battery_health returns a value in [0, 100] for
\* every voltage, current, temperature, soc and chemistry, values outside
\* the ranges of the widgets included, and for every noise draw in [-2, 2].
HealthInRange ==
    (call.fn \in {"calculate_battery_health", "assess"} /\ result.done)
       => 0 <= result.health /\ result.health <= 1000000

\* the score of an input far out of range was negative and came back as 0
HealthClampedAtZero ==
    /\ call.fn = "calculate_battery_health" /\ result.done
    /\ call.soc < 0 /\ call.temp > 7000
    /\ result.health = 0

\* C16 (SpecCalls): the label of get_detailed_cell_status is the first match
\* of health >= 95 Excellent, >= 85 Good, >= 70 Normal, >= 50 Warning, >= 30
\* Critical, else Danger; the suggestions come in the order health,
\* temperature, soc, voltage, at most one of each; the result depends on the
\* arguments only.
SuggestionRank(text) ==
    IF text \in {"Monitor regularly", "Check cell parameters",
                 "Immediate attention required", "Replace cell immediately"}
    THEN 1
    ELSE IF text \in {"Cool down the battery", "Warm up the battery"} THEN 2
    ELSE IF text \in {"Charge battery soon", "Avoid overcharging"} THEN 3
    ELSE IF text = "Check voltage regulation" THEN 4
    ELSE 0

LabelOf(health) ==
    IF health >= 950000 THEN "Excellent"
    ELSE IF health >= 850000 THEN "Good"
    ELSE IF health >= 700000 THEN "Normal"
    ELSE IF health >= 500000 THEN "Warning"
    ELSE IF health >= 300000 THEN "Critical"
    ELSE "Danger"

StatusAsSpecified ==
    (call.fn = "get_detailed_cell_status" /\ result.done)
       => /\ result.status = LabelOf(call.health)
          /\ \A i \in 1..Len(result.suggestions) :
                SuggestionRank(result.suggestions[i]) > 0
          /\ \A i, j \in 1..Len(result.suggestions) :
                i < j => SuggestionRank(result.suggestions[i])
                            < SuggestionRank(result.suggestions[j])
          /\ \A other \in StatusCalls :
                (/\ other.health = call.health /\ other.temp = call.temp
                 /\ other.voltage = call.voltage /\ other.soc = call.soc
                 /\ other.cell_type = call.cell_type)
                   => LET r == get_detailed_cell_status(other.health,
                                  other.temp, other.voltage, other.soc,
                                  other.cell_type)
                      IN  r.status = result.status
                          /\ r.suggestions = result.suggestions

\* a call has returned one suggestion of each of the four kinds
FourSuggestions ==
    /\ call.fn = "get_detailed_cell_status" /\ result.done
    /\ Len(result.suggestions) = 4
    /\ result.status = "Warning"

\* C17 (SpecCalls): an NMC cell at 4.2 V, 10 A, 55 C and 98 % scores below
\* 70 for every noise draw in [-2, 2] (the temperature, current and soc
\* penalties alone take at least 15 + 6 + 4.5 from 100), is labelled Warning
\* or worse, and is told "Cool down the battery" and "Avoid overcharging".
IsHotChargedNmc ==
    /\ call.fn = "assess" /\ call.cell_type = "NMC"
    /\ call.voltage = 42000 /\ call.current = 100
    /\ call.temp = 5500 /\ call.soc = 9800

HotChargedNmcIsWarned ==
    (IsHotChargedNmc /\ result.done)
       => /\ result.health < 700000
          /\ result.health <= 1000000 - 150000 - 60000 - 45000 + call.z
          /\ result.status \in {"Warning", "Critical", "Danger"}
          /\ \E i \in 1..Len(result.suggestions) :
                result.suggestions[i] = "Cool down the battery"
          /\ \E i \in 1..Len(result.suggestions) :
                result.suggestions[i] = "Avoid overcharging"

\* the cell of the scenario has been scored with the largest noise draw
HotChargedNmcAssessed ==
    /\ IsHotChargedNmc /\ result.done /\ call.z = 20000
    /\ result.status = "Warning"

\* C18 (Spec): in both variants, after the configuration step of a run with
\* the cell count n the store holds exactly the cells 1 .. n: cells are
\* created up to n and the cells above n are removed.
StoreIsOneToCount ==
    now > 0 => DOMAIN cells_data = 1..num_cells

\* C19 (Spec): an identifier that belonged to a cell removed from the store
\* is never the identifier of a cell of the store afterwards.
RemovedIdNotReused ==
    removed_ids \cap DOMAIN cells_data = {}

\* C20 (SpecHistory): the aggregate history of variant 1 gets one snapshot
\* per tick and never holds more than 100: after a tick it holds the new
\* snapshot last and before it the most recent of the snapshots it held, as
\* many as fit, in the order they were appended and unmodified; so k ticks
\* leave the min(k, 100) most recent snapshots.  A run without a tick leaves
\* the history as it is (Reset Data empties it first).
AggregateHistoryStep ==
    LET old  == IF button' = "reset" THEN <<>> ELSE historical_data
        new  == historical_data'
        drop == Len(old) + 1 - Len(new)
    IN  variant = 1
           => IF simulation_running'
              THEN /\ Len(new) = Min(Len(old) + 1, 100)
                   /\ new[Len(new)].timestamp = now'
                   /\ \A i \in 1..(Len(new) - 1) : new[i] = old[i + drop]
              ELSE new = old

AggregateHistoryKeepsLatest == [][AggregateHistoryStep]_vars

\* 150 ticks, one per second, have been logged without a reset: the history
\* holds the snapshots of the last 100 of them
LoggedPastTheLimit ==
    /\ variant = 1 /\ simulation_running
    /\ now = 149
    /\ Len(historical_data) = 100
    /\ \A i \in 1..100 : historical_data[i].timestamp = 49 + i

\* C21 (SpecLongRun): in both variants the buffer of per-cell snapshots
\* (variant 1 data_points, variant 2 historical_data) holds at most 500
\* entries at the end of every run, however long the simulation has run.
PerCellHistoryBounded ==
    /\ variant = 1 => Len(data_points) <= 500
    /\ variant = 2 => Len(historical_data) <= 500

\* C22 (SpecSeq): in variant 2, whenever a run has updated the cells (the
\* simulation is running at its end), the task applied to them is the task
\* at the step index as the run's sequencer transition left it, or IDLE with
\* an empty queue: no update is driven by a task the run has just completed.
AppliedTaskIsStepTask ==
    (variant = 2 /\ simulation_running) =>
        /\ task_type = GetCurrentTask(task_sequence, current_task_step).type
        /\ task_params = GetCurrentTask(task_sequence, current_task_step).params

\* C23 (Spec): in variant 2 the step index is a valid position in every
\* reachable state, whatever was pressed: 0 with an empty queue, and a
\* position of the queue (at least 0, less than its length) otherwise.
StepIndexValid ==
    variant = 2 =>
        IF task_sequence = <<>> THEN current_task_step = 0
        ELSE current_task_step >= 0 /\ current_task_step < Len(task_sequence)

\* the last task of the queue has completed and the step index is back at 0
WrappedAfterLastTask ==
    /\ variant = 2 /\ task_sequence # <<>>
    /\ task_sequence[Len(task_sequence)].completed
    /\ current_task_step = 0 /\ ~simulation_running /\ button = "none"

\* a run that starts from a stopped simulation marks the task under way
\* completed
CompletesStoppedTask ==
    /\ variant = 2 /\ ~simulation_running
    /\ task_sequence # <<>> /\ task_start_time # NoTime
    /\ ~task_sequence[current_task_step + 1].completed
    /\ Len(task_sequence') = Len(task_sequence)
    /\ task_sequence'[current_task_step + 1].completed

\* C24 (Spec): in variant 2 the time spent stopped does not count towards a
\* task's elapsed time.  A run that starts from a stopped simulation with a
\* task under way (task_start_time is set, the task is not yet completed)
\* follows an interval spent stopped, so the task has been running for at
\* most now - task_start_time; such a run may mark the task completed only
\* if that time already reaches the task's duration.
StoppedTimeNotCounted ==
    [][ CompletesStoppedTask =>
          now - task_start_time
             >= task_sequence[current_task_step + 1].params.time_seconds ]_vars

\* C25 (SpecCalls): with the same noise draw and all other inputs fixed, the
\* health score of variant 1 does not increase with temperature above 40 C:
\* a cell scored at a temperature above 40 C scores at least as much as the
\* same cell at any higher temperature, in the moderate band (40, 50] and
\* in the severe band above 50 C alike.
HotterNeverScoresHigher ==
    (call.fn = "calculate_battery_health" /\ result.done /\ call.temp > 4000)
       => \A hotter \in {4001, 4500, 5000, 5001, 5250, 5500, 6000, 20000} :
             hotter >= call.temp
                => calculate_battery_health(call.voltage, call.current,
                      hotter, call.soc, call.cell_type, call.z)
                   <= result.health

\* a run of variant 2 leaves the type, the health and the voltage limits of
\* every cell as they were, and a run that ticks the cells with an IDLE task
\* leaves their voltage, soc and temperature as they were too
TickKeepsFrame ==
    variant = 2 =>
        \A k \in DOMAIN cells_data :
           /\ cells_data'[k].type = cells_data[k].type
           /\ cells_data'[k].health = cells_data[k].health
           /\ cells_data'[k].min_voltage = cells_data[k].min_voltage
           /\ cells_data'[k].max_voltage = cells_data[k].max_voltage
           /\ (simulation_running' /\ task_type' \notin {"CC_CV", "CC_CD"})
                 => /\ cells_data'[k].voltage = cells_data[k].voltage
                    /\ cells_data'[k].soc = cells_data[k].soc
                    /\ cells_data'[k].temp = cells_data[k].temp
                    /\ cells_data'[k].current = 0
                    /\ cells_data'[k].status = "IDLE"

\* C26 (SpecCycled): simulate_battery_operation never changes the type, the
\* health, min_voltage or max_voltage of a cell, whatever the task, and an
\* IDLE tick also leaves voltage, soc and temperature unchanged: it writes
\* only current, status and capacity.
FramePreserved == [][TickKeepsFrame]_vars

\* an IDLE tick has been applied to a cell that had been charged or
\* discharged away from its initial voltage
IdleTickedAfterCycling ==
    /\ variant = 2 /\ now > 0 /\ simulation_running /\ task_type = "IDLE"
    /\ \E k \in DOMAIN cells_data :
          /\ cells_data[k].status = "IDLE" /\ cells_data[k].current = 0
          /\ cells_data[k].voltage \notin {32000, 36000}

\* the parameters of the tasks of the same kind and current as the given
\* one, over the CV voltages, cut-off voltages and durations of the sliders
SameKindAndCurrent(ttype, tparams) ==
    { NewTaskParams(ttype, Get(tparams, "current", 10), v, s) :
        v \in {25000, 30000, 35000, 42000}, s \in {5, 10, 300} }

\* the cells a run has ticked are what the same draw gives under every task
\* of the same kind and current
TickIgnoresVoltageAndTime ==
    (variant = 2 /\ simulation_running')
       => \A k \in DOMAIN cells_data :
             \E u \in SessionEnv.tempDraws :
                /\ cells_data'[k] =
                      simulate_battery_operation(cells_data[k], task_type',
                                                 task_params', u)
                /\ \A other \in SameKindAndCurrent(task_type', task_params') :
                      simulate_battery_operation(cells_data[k], task_type',
                                                 other, u) = cells_data'[k]

\* C27 (SpecCycled): the result of a variant 2 tick depends on the task's
\* parameters only through its kind and its current: from the same cell
\* and with the same draw, tasks that differ only in cv_voltage, cut-off
\* voltage or time_seconds give the same cell, so neither voltage of the
\* task limits the voltage of the cell.
TaskVoltagesNeverLimit == [][TickIgnoresVoltageAndTime]_vars

\* a discharge tick has taken a cell below the cut-off voltage of its task
DischargedBelowCutOff ==
    /\ variant = 2 /\ now > 0 /\ simulation_running /\ task_type = "CC_CD"
    /\ \E k \in DOMAIN cells_data :
          /\ cells_data[k].status = "DISCHARGING"
          /\ cells_data[k].voltage < task_params.voltage

====
